---- MODULE Spec2Model ----
(***************************************************************************)
(* Model of the obsidian-blogg-plugin note processor (src/src/main.ts).    *)
(*                                                                         *)
(* A JavaScript string is a sequence of one-character strings, one element *)
(* per UTF-16 code unit.  A Hangul syllable is written by its romanised    *)
(* name in angle brackets ("<yo>" for 요, "<da>" for 다, "<ni>" for 니,    *)
(* "<seup>" for 습, "<i>" "<mi>" "<ji>" for 이미지, "<saeng>" "<seong>"    *)
(* for 생성); each name is one element, i.e. one code unit of the source   *)
(* text.  An optional value (undefined, a missing field) is a set with at  *)
(* most one element.                                                       *)
(***************************************************************************)
EXTENDS Integers, Sequences, FiniteSets, TLC

VARIABLES
    apiKey,        \* plugin.settings.apiKey
    fileContent,   \* the stored content of the note (vault)
    pc,            \* position of the processMetaActionsInNote run
    original,      \* local `original`
    actions,       \* local `actions`
    idx,           \* loop position: index in `actions` of the marker being resolved
    updated,       \* local `updated` (the working text)
    request,       \* the requestUrl call in flight (at most one element)
    requests,      \* number of requestUrl calls issued by the run
    logs,          \* console.error entries, in order
    folder,        \* whether the vault folder "images" exists
    images,        \* paths of the binary files in the vault
    created,       \* paths of the files created by the run
    now,           \* the last value Date.now() returned
    modal,         \* number of ApiKeyModal.open() calls
    reads,         \* number of vault.read calls of the run
    modifies,      \* number of vault.modify calls of the run
    error,         \* the error the run rejected with (at most one element)
    resolved,      \* the replacement string computed for each marker so far
    reply,         \* the outcome of the last requestUrl call that settled
    second,        \* the locals of a run started while the first one awaits
    fpc,           \* position of a single call of a pure function
    arg,           \* the argument of that call
    ret            \* its result

runVars == <<apiKey, fileContent, pc, original, actions, idx, updated, request,
             requests, logs, folder, images, created, now, modal, reads,
             modifies, error, resolved, reply, second>>
fnVars == <<fpc, arg, ret>>
vars == <<apiKey, fileContent, pc, original, actions, idx, updated, request,
          requests, logs, folder, images, created, now, modal, reads,
          modifies, error, resolved, reply, second, fpc, arg, ret>>

-----------------------------------------------------------------------------
(* Strings                                                                  *)

\* The characters String.prototype.trim removes and \s matches.
WhiteSpace == {" ", "\n"}

RECURSIVE Rep(_, _)
\* n copies of the character c.
Rep(c, n) == IF n = 0 THEN <<>> ELSE <<c>> \o Rep(c, n - 1)

\* s.slice(a, b) for 0 <= a, b (0-based, b exclusive).
Slice(s, a, b) == SubSeq(s, a + 1, IF b < Len(s) THEN b ELSE Len(s))

RECURSIVE TrimStart(_)
TrimStart(s) ==
    IF s # <<>> /\ Head(s) \in WhiteSpace THEN TrimStart(Tail(s)) ELSE s

RECURSIVE TrimEnd(_)
TrimEnd(s) ==
    IF s # <<>> /\ s[Len(s)] \in WhiteSpace
    THEN TrimEnd(SubSeq(s, 1, Len(s) - 1)) ELSE s

\* String.prototype.trim
Trim(s) == TrimEnd(TrimStart(s))

\* Whether sub occurs in s at the 1-based position p.
OccursAt(s, sub, p) ==
    /\ p >= 1
    /\ p + Len(sub) - 1 <= Len(s)
    /\ SubSeq(s, p, p + Len(sub) - 1) = sub

\* s.indexOf(sub): the 0-based position of the first occurrence, or -1.
IndexOf(s, sub) ==
    IF \E p \in 1..(Len(s) + 1) : OccursAt(s, sub, p)
    THEN (CHOOSE p \in 1..(Len(s) + 1) :
              /\ OccursAt(s, sub, p)
              /\ \A q \in 1..(p - 1) : ~OccursAt(s, sub, q)) - 1
    ELSE -1

RECURSIVE FindChar(_, _, _)
\* The 1-based position of the first c at or after position i, or 0.
FindChar(s, c, i) ==
    IF i > Len(s) THEN 0
    ELSE IF s[i] = c THEN i
    ELSE FindChar(s, c, i + 1)

RECURSIVE ExpandReplacement(_, _, _, _)
\* GetSubstitution for a string pattern (no capture groups): the replacement
\* text of String.prototype.replace.  "$$" is "$", "$&" the matched text,
\* "$" with a grave accent the text before the match, "$" with an apostrophe
\* the text after it; any other "$" stands for itself.  The grave accent
\* (U+0060) is written as the token "<grave>".
ExpandReplacement(repl, matched, before, after) ==
    IF repl = <<>> THEN <<>>
    ELSE IF Head(repl) = "$" /\ Len(repl) >= 2
                /\ repl[2] \in {"$", "&", "<grave>", "'"}
    THEN (CASE repl[2] = "$" -> <<"$">>
            [] repl[2] = "&" -> matched
            [] repl[2] = "<grave>" -> before
            [] repl[2] = "'" -> after)
         \o ExpandReplacement(SubSeq(repl, 3, Len(repl)), matched, before, after)
    ELSE <<Head(repl)>> \o ExpandReplacement(Tail(repl), matched, before, after)

\* s.replace(pattern, repl) with a string pattern: the first occurrence only.
ReplaceFirst(s, pattern, repl) ==
    LET i == IndexOf(s, pattern)
    IN  IF i < 0 THEN s
        ELSE LET before == SubSeq(s, 1, i)
                 after == SubSeq(s, i + Len(pattern) + 1, Len(s))
             IN  before \o ExpandReplacement(repl, pattern, before, after) \o after

-----------------------------------------------------------------------------
(* parseMetaActions                                                         *)

\* /@\(([^)]+)\)\[([^\]]+)\]/ tried at the 1-based position p.  Both classes
\* are greedy and cannot cross their closing character, so the match, when
\* there is one, ends the first group at the first ")" and the second at the
\* first "]".  The result holds at most one element, <<q, r>>: the positions
\* of that ")" and of that "]".
MarkerMatchAt(s, p) ==
    LET q == FindChar(s, ")", p + 2)
        r == IF q = 0 THEN 0 ELSE FindChar(s, "]", q + 2)
    IN  IF /\ p + 1 <= Len(s)
           /\ s[p] = "@"
           /\ s[p + 1] = "("
           /\ q >= p + 3
           /\ q + 1 <= Len(s)
           /\ s[q + 1] = "["
           /\ r >= q + 3
        THEN {<<q, r>>}
        ELSE {}

\* The MetaAction pushed for the match at p.  `index` is match.index, which
\* the source does not keep; it is recorded for the statements about order.
MetaAction(s, p, q, r) ==
    [actionType |-> Trim(SubSeq(s, p + 2, q - 1)),
     instruction |-> Trim(SubSeq(s, q + 2, r - 1)),
     raw |-> SubSeq(s, p, r),
     index |-> p - 1]

\* NextScan resuming one character after the start of the match.
NextScan_Overlapping(p, r) == p + 1

\* Where the scan resumes after the match at p ending at r (lastIndex).
NextScan(p, r) == r + 1

RECURSIVE MatchAllFrom(_, _)
\* content.matchAll(...) from the 1-based position p on.
MatchAllFrom(s, p) ==
    IF p > Len(s) THEN <<>>
    ELSE LET m == MarkerMatchAt(s, p)
         IN  IF m = {} THEN MatchAllFrom(s, p + 1)
             ELSE LET qr == CHOOSE x \in m : TRUE
                  IN  <<MetaAction(s, p, qr[1], qr[2])>>
                          \o MatchAllFrom(s, NextScan(p, qr[2]))

parseMetaActions(content) == MatchAllFrom(content, 1)

-----------------------------------------------------------------------------
(* sanitizeFileName, mimeTypeToExt                                          *)

UpperCase == <<"A", "B", "C", "D", "E", "F", "G", "H", "I", "J", "K", "L", "M",
               "N", "O", "P", "Q", "R", "S", "T", "U", "V", "W", "X", "Y", "Z">>
LowerCase == <<"a", "b", "c", "d", "e", "f", "g", "h", "i", "j", "k", "l", "m",
               "n", "o", "p", "q", "r", "s", "t", "u", "v", "w", "x", "y", "z">>
Digits == <<"0", "1", "2", "3", "4", "5", "6", "7", "8", "9">>

\* The characters of the class [a-z0-9].
AlphaNum == {LowerCase[i] : i \in 1..26} \cup {Digits[i] : i \in 1..10}

ToLowerChar(c) ==
    IF \E i \in 1..26 : UpperCase[i] = c
    THEN LowerCase[CHOOSE i \in 1..26 : UpperCase[i] = c]
    ELSE c

\* String.prototype.toLowerCase
ToLowerCase(s) == [i \in 1..Len(s) |-> ToLowerChar(s[i])]

RECURSIVE CollapseNonAlnum(_)
\* .replace(/[^a-z0-9]+/g, "-"): every maximal run outside the class becomes
\* one "-".
CollapseNonAlnum(s) ==
    IF s = <<>> THEN <<>>
    ELSE IF Head(s) \in AlphaNum THEN <<Head(s)>> \o CollapseNonAlnum(Tail(s))
    ELSE IF Len(s) >= 2 /\ s[2] \notin AlphaNum THEN CollapseNonAlnum(Tail(s))
    ELSE <<"-">> \o CollapseNonAlnum(Tail(s))

RECURSIVE StripLeadingDashes(_)
StripLeadingDashes(s) ==
    IF s # <<>> /\ Head(s) = "-" THEN StripLeadingDashes(Tail(s)) ELSE s

RECURSIVE StripTrailingDashes(_)
StripTrailingDashes(s) ==
    IF s # <<>> /\ s[Len(s)] = "-"
    THEN StripTrailingDashes(SubSeq(s, 1, Len(s) - 1)) ELSE s

\* .replace(/^-+|-+$/g, "")
StripDashes(s) == StripTrailingDashes(StripLeadingDashes(s))

\* The argument of .slice(0, 50) in sanitizeFileName.
SlugMaxLen == 50

sanitizeFileName(input) ==
    Slice(StripDashes(CollapseNonAlnum(ToLowerCase(input))), 0, SlugMaxLen)

\* sanitizeFileName(query) || "image"
SlugOrPlaceholder(query) ==
    LET slug == sanitizeFileName(query)
    IN  IF slug = <<>> THEN <<"i", "m", "a", "g", "e">> ELSE slug

ImagePrefix == <<"i", "m", "a", "g", "e", "/">>

mimeTypeToExt(mimeType) ==
    LET m == ToLowerCase(mimeType)
    IN  CASE m = ImagePrefix \o <<"j", "p", "e", "g">> -> <<"j", "p", "g">>
          [] m = ImagePrefix \o <<"w", "e", "b", "p">> -> <<"w", "e", "b", "p">>
          [] m = ImagePrefix \o <<"g", "i", "f">> -> <<"g", "i", "f">>
          [] m = ImagePrefix \o <<"s", "v", "g", "+", "x", "m", "l">> -> <<"s", "v", "g">>
          [] m = ImagePrefix \o <<"b", "m", "p">> -> <<"b", "m", "p">>
          [] OTHER -> <<"p", "n", "g">>

-----------------------------------------------------------------------------
(* inferToneProfile                                                         *)

\* The class [.!?。！？]; the three full-width marks are named.
SentencePunct == {".", "!", "?", "FULLSTOP", "FULLEXCL", "FULLQUEST"}

RECURSIVE CountMatches(_, _, _)
\* (s.match(/(a1|a2|...)[.!?。！？]?/g) ?? []).length for literal alternatives
\* alts, tried in order, scanning from the 1-based position p.
CountMatches(s, alts, p) ==
    IF p > Len(s) THEN 0
    ELSE IF \E k \in 1..Len(alts) : OccursAt(s, alts[k], p)
    THEN LET k == CHOOSE k \in 1..Len(alts) :
                      /\ OccursAt(s, alts[k], p)
                      /\ \A j \in 1..(k - 1) : ~OccursAt(s, alts[j], p)
             e == p + Len(alts[k])
             n == IF e <= Len(s) /\ s[e] \in SentencePunct THEN e + 1 ELSE e
         IN  1 + CountMatches(s, alts, n)
    ELSE CountMatches(s, alts, p + 1)

\* The five descriptors inferToneProfile returns:
\*   "참조 문맥 부족", "존댓말(~요) 중심", "격식 존댓말(~습니다/~니다) 중심",
\*   "평서체(~다) 중심", "참조 문맥 어투 최대한 모사".
ToneInsufficient == "insufficient-context"
ToneCasualPolite == "casual-polite(~yo)"
ToneFormal == "formal-polite(~seupnida/~nida)"
TonePlain == "plain(~da)"
ToneFallback == "mimic-context"

\* inferToneProfile with >= for > in the first test.
inferToneProfile_TieIsCasual(toneContext) ==
    IF toneContext = <<>> THEN ToneInsufficient
    ELSE LET endsWithYo == CountMatches(toneContext, <<<<"<yo>">>>>, 1)
             endsFormal == CountMatches(toneContext,
                               <<<<"<seup>", "<ni>", "<da>">>, <<"<ni>", "<da>">>>>, 1)
             endsPlain == CountMatches(toneContext, <<<<"<da>">>>>, 1)
         IN  IF endsWithYo >= endsPlain THEN ToneCasualPolite
             ELSE IF endsFormal > 0 THEN ToneFormal
             ELSE IF endsPlain > 0 THEN TonePlain
             ELSE ToneFallback

inferToneProfile(toneContext) ==
    IF toneContext = <<>> THEN ToneInsufficient
    ELSE LET endsWithYo == CountMatches(toneContext, <<<<"<yo>">>>>, 1)
             endsFormal == CountMatches(toneContext,
                               <<<<"<seup>", "<ni>", "<da>">>, <<"<ni>", "<da>">>>>, 1)
             endsPlain == CountMatches(toneContext, <<<<"<da>">>>>, 1)
         IN  IF endsWithYo > endsPlain THEN ToneCasualPolite
             ELSE IF endsFormal > 0 THEN ToneFormal
             ELSE IF endsPlain > 0 THEN TonePlain
             ELSE ToneFallback

-----------------------------------------------------------------------------
(* writeEnvValue                                                            *)

GEMINI_API_KEY_ENV ==
    <<"G", "E", "M", "I", "N", "I", "_", "A", "P", "I", "_", "K", "E", "Y">>

RECURSIVE SkipSpace(_, _)
\* The position after the longest run of \s starting at the position p.
SkipSpace(s, p) ==
    IF p <= Len(s) /\ s[p] \in WhiteSpace THEN SkipSpace(s, p + 1) ELSE p

\* The position of the end of the line that holds position p ($ with the m
\* flag): the last position before the next "\n", or Len(s).
LineEnd(s, p) ==
    LET n == FindChar(s, "\n", p)
    IN  IF n = 0 THEN Len(s) ELSE n - 1

\* Whether ^ (m flag) matches before the 1-based position p.
LineStart(s, p) == p = 1 \/ (p - 1 <= Len(s) /\ s[p - 1] = "\n")

\* /^\s*KEY\s*=\s*.*$/m tried at p: at most one element, the position of the
\* last character matched (p - 1 for an empty match is impossible: KEY and
\* "=" are always consumed).  \s also matches "\n", so the leading \s* can
\* run over blank lines and the \s* after "=" can run into the next line.
EnvMatchAt(s, key, p) ==
    LET a == SkipSpace(s, p)
        b == SkipSpace(s, a + Len(key))
        c == SkipSpace(s, b + 1)
    IN  IF /\ LineStart(s, p)
           /\ OccursAt(s, key, a)
           /\ b <= Len(s)
           /\ s[b] = "="
        THEN {IF c > Len(s) THEN Len(s) ELSE LineEnd(s, c)}
        ELSE {}

\* The leftmost position at which the pattern matches, as a set.
EnvMatchStart(s, key) ==
    LET ps == {p \in 1..Len(s) : EnvMatchAt(s, key, p) # {}}
    IN  IF ps = {} THEN {} ELSE {CHOOSE p \in ps : \A q \in ps : p <= q}

writeEnvValue(envText, key, value) ==
    LET nextLine == key \o <<"=">> \o value
        m == EnvMatchStart(envText, key)
    IN  IF envText = <<>> \/ Trim(envText) = <<>> THEN nextLine \o <<"\n">>
        ELSE IF m # {}
        THEN LET p == CHOOSE x \in m : TRUE
                 e == CHOOSE x \in EnvMatchAt(envText, key, p) : TRUE
                 before == SubSeq(envText, 1, p - 1)
                 after == SubSeq(envText, e + 1, Len(envText))
             IN  before
                     \o ExpandReplacement(nextLine, SubSeq(envText, p, e), before, after)
                     \o after
        ELSE LET needsNewline ==
                     IF envText[Len(envText)] = "\n" THEN <<>> ELSE <<"\n">>
             IN  envText \o needsNewline \o nextLine \o <<"\n">>

\* saveApiKeyToEnv: the text written to .env for the current text (at most
\* one element: the file may not exist) and the key to save.
saveApiKeyToEnv(current, key) ==
    writeEnvValue(IF current = {} THEN <<>> ELSE CHOOSE x \in current : TRUE,
                  GEMINI_API_KEY_ENV, Trim(key))

-----------------------------------------------------------------------------
(* Optional values, the response of requestUrl                              *)

The(o) == CHOOSE x \in o : TRUE

\* obj[name] for a headers object; "" stands for undefined (both are falsy).
HeaderGet(h, name) == IF name \in DOMAIN h THEN h[name] ELSE ""

\* a || b on header values.
OrElse(a, b) == IF a # "" THEN a ELSE b

\* res.json ?? {}
EmptyObject == [parts |-> {}, error |-> {}]

\* logGeminiError: the entry it hands to console.error.  The body is the raw
\* text when there is one, else the serialization of the parsed payload.
logGeminiError(label, res) ==
    LET headers == IF res.headers = {} THEN <<>> ELSE The(res.headers)
        retryAfter ==
            OrElse(HeaderGet(headers, "retry-after"),
                   OrElse(HeaderGet(headers, "Retry-After"),
                          OrElse(HeaderGet(headers, "Retry-after"), "")))
        bodyText ==
            IF res.text # {} /\ The(res.text) # ""
            THEN [from |-> "text", value |-> res.text]
            ELSE [from |-> "JSON.stringify",
                  value |-> {IF res.json = {} THEN EmptyObject ELSE The(res.json)}]
    IN  [kind |-> "structured", label |-> label, status |-> {res.status},
         retryAfter |-> retryAfter, headers |-> headers, body |-> bodyText]

\* console.error(`Gemini ${label} error:`, err)
RawLog(label) ==
    [kind |-> "raw", label |-> label, status |-> {}, retryAfter |-> "",
     headers |-> <<>>, body |-> [from |-> "err", value |-> {}]]

\* a ?? b on optional values
Coalesce(a, b) == IF a # {} THEN a ELSE b

\* res.status < 200 || res.status >= 300
IsErrorStatus(status) == status < 200 \/ status >= 300

\* What requestUrlWithLogging logs for a failure that carries a status.
StatusFailureLogs(label, res) == <<logGeminiError(label, res)>>

\* CatchLogs with the status branch taken for every error: an error without
\* a status is handed to logGeminiError as well (status 0).
CatchLogs_AlwaysStructured(label, e) ==
    StatusFailureLogs(label,
        [status |-> IF e.status = {} THEN 0 ELSE The(e.status), headers |-> e.headers,
         text |-> Coalesce(e.responseText, e.text), json |-> e.json])

\* What requestUrlWithLogging logs in its catch block for the error e.
CatchLogs(label, e) ==
    IF e.status # {}
    THEN StatusFailureLogs(label,
             [status |-> The(e.status), headers |-> e.headers,
              text |-> Coalesce(e.responseText, e.text), json |-> e.json])
    ELSE <<RawLog(label)>>

\* new Error(`Gemini API error: ${res.status}`): an Error has no status.
ApiError(status) ==
    [kind |-> "throw", name |-> "Gemini API error", apiStatus |-> {status},
     status |-> {}, headers |-> {}, responseText |-> {}, text |-> {},
     json |-> {}, message |-> <<>>]

\* requestUrlWithLogging, given the outcome resp of requestUrl: whether it
\* returns, the console.error entries it writes (in order) and the error it
\* throws.
requestUrlWithLogging(label, resp) ==
    IF resp.kind = "response"
    THEN IF IsErrorStatus(The(resp.status))
         THEN [ok |-> FALSE,
               logs |-> StatusFailureLogs(label,
                            [status |-> The(resp.status), headers |-> resp.headers,
                             text |-> resp.text, json |-> resp.json])
                        \o CatchLogs(label, ApiError(The(resp.status))),
               error |-> {ApiError(The(resp.status))}]
         ELSE [ok |-> TRUE, logs |-> <<>>, error |-> {}]
    ELSE [ok |-> FALSE, logs |-> CatchLogs(label, resp), error |-> {resp}]

\* data.candidates?.[0]?.content?.parts of a successful response.
PartsOf(resp) ==
    IF resp.json = {} THEN {} ELSE The(resp.json).parts

-----------------------------------------------------------------------------
(* callGeminiForAction: the text it returns for a successful response        *)

\* callGeminiForAction without trim(): a blank text is returned as it is.
callGeminiForAction_Untrimmed(resp) ==
    LET parts == PartsOf(resp)
    IN  IF parts = {} \/ The(parts) = <<>> \/ The(parts)[1].text = {}
        THEN <<>>
        ELSE The(The(parts)[1].text)

callGeminiForAction(resp) ==
    LET parts == PartsOf(resp)
        text == IF parts = {} \/ The(parts) = <<>> \/ The(parts)[1].text = {}
                THEN {}
                ELSE {Trim(The(The(parts)[1].text))}
    IN  IF text # {} /\ Len(The(text)) > 0 THEN The(text) ELSE <<>>

-----------------------------------------------------------------------------
(* extractToneContext                                                        *)

\* The length of the recent text kept: slice(-1500).
ToneRecentLen == 1500

\* s.slice(-n) for n > 0: the last n characters of s.
SliceLast(s, n) == IF Len(s) <= n THEN s ELSE SubSeq(s, Len(s) - n + 1, Len(s))

RECURSIVE SkipNewlines(_, _)
\* The position after the longest run of "\n" starting at the position p.
SkipNewlines(s, p) ==
    IF p <= Len(s) /\ s[p] = "\n" THEN SkipNewlines(s, p + 1) ELSE p

RECURSIVE SplitChunks(_, _, _)
\* s.split(/(?<=[.!?。！？])\s+|\n+/u) from the 1-based position p on, the
\* current chunk starting at start: a separator is a run of white space that
\* follows a sentence mark, or else a run of newlines.
SplitChunks(s, p, start) ==
    IF p > Len(s) THEN <<SubSeq(s, start, Len(s))>>
    ELSE IF s[p] \in WhiteSpace /\ p > 1 /\ s[p - 1] \in SentencePunct
    THEN <<SubSeq(s, start, p - 1)>>
             \o SplitChunks(s, SkipSpace(s, p), SkipSpace(s, p))
    ELSE IF s[p] = "\n"
    THEN <<SubSeq(s, start, p - 1)>>
             \o SplitChunks(s, SkipNewlines(s, p), SkipNewlines(s, p))
    ELSE SplitChunks(s, p + 1, start)

\* .map((s) => s.trim()).filter((s) => s.length > 0)
TrimmedChunks(chunks) ==
    SelectSeq([i \in 1..Len(chunks) |-> Trim(chunks[i])], LAMBDA c : c # <<>>)

\* parts.slice(-2).join(" ")
JoinLastTwo(parts) ==
    IF Len(parts) = 1 THEN parts[1]
    ELSE parts[Len(parts) - 1] \o <<" ">> \o parts[Len(parts)]

extractToneContext(contentBeforeAction) ==
    LET trimmed == Trim(contentBeforeAction)
        recent == Trim(SliceLast(trimmed, ToneRecentLen))
        parts == TrimmedChunks(SplitChunks(recent, 1, 1))
    IN  IF trimmed = <<>> THEN <<>>
        ELSE IF recent = <<>> THEN <<>>
        ELSE IF Len(parts) = 0 THEN <<>>
        ELSE JoinLastTwo(parts)

\* The text the tone context of a text marker is taken from: the working
\* text `updated`, not the note as read.
ToneSource_Original(orig, upd) == orig

ToneSource(orig, upd) == upd

\* const before = markerIndex >= 0 ? updated.slice(0, markerIndex) : updated
BeforeMarker(text, raw) ==
    LET markerIndex == IndexOf(text, raw)
    IN  IF markerIndex >= 0 THEN Slice(text, 0, markerIndex) ELSE text

-----------------------------------------------------------------------------
(* callGeminiImageSearch, saveGeneratedImageToVault                          *)

\* p.inlineData?.data || p.inline_data?.data, as a condition
HasInlineData(p) ==
    \/ p.inlineData # {} /\ The(p.inlineData).data \notin {{}, {<<>>}}
    \/ p.inline_data # {} /\ The(p.inline_data).data \notin {{}, {<<>>}}

\* parts.find(...): the first part that has inline data
FindInline(parts) ==
    LET is == {i \in 1..Len(parts) : HasInlineData(parts[i])}
    IN  IF is = {} THEN {} ELSE {parts[CHOOSE i \in is : \A j \in is : i <= j]}

\* inline?.inlineData?.<field>?.trim() ?? inline?.inline_data?.<field>?.trim()
\*     ?? fallback, with the two fields' values given
TrimmedOr(camel, snake, fallback) ==
    IF camel # {} THEN Trim(The(camel))
    ELSE IF snake # {} THEN Trim(The(snake))
    ELSE fallback

Base64Of(inline) ==
    IF inline = {} THEN <<>>
    ELSE LET p == The(inline)
         IN  TrimmedOr(IF p.inlineData = {} THEN {} ELSE The(p.inlineData).data,
                       IF p.inline_data = {} THEN {} ELSE The(p.inline_data).data,
                       <<>>)

MimeTypeOf(inline) ==
    LET png == ImagePrefix \o <<"p", "n", "g">>
    IN  IF inline = {} THEN png
        ELSE LET p == The(inline)
             IN  TrimmedOr(IF p.inlineData = {} THEN {} ELSE The(p.inlineData).mimeType,
                           IF p.inline_data = {} THEN {} ELSE The(p.inline_data).mime_type,
                           png)

\* The argument of firstPartText.slice(0, 180).
ExcerptMaxLen == 180

NoImageMessage == <<"N", "o", " ", "i", "m", "a", "g", "e", " ", "d", "a", "t", "a", " ", "r", "e", "t", "u", "r", "n", "e", "d", " ", "f", "r", "o", "m", " ", "G", "e", "m", "i", "n", "i", ".">>
NoImageTextLabel == <<" ", "t", "e", "x", "t", "=">>

\* parts[0]?.text?.trim() ?? ""
FirstPartText(parts) ==
    IF parts = <<>> \/ parts[1].text = {} THEN <<>> ELSE Trim(The(parts[1].text))

\* NoImageReason without the slice: the whole text goes into the message.
NoImageReason_NoSlice(firstPartText) ==
    IF Len(firstPartText) > 0
    THEN NoImageMessage \o NoImageTextLabel \o firstPartText
    ELSE NoImageMessage

\* The message of the Error thrown when the response has no image payload.
NoImageReason(firstPartText) ==
    IF Len(firstPartText) > 0
    THEN NoImageMessage \o NoImageTextLabel \o Slice(firstPartText, 0, ExcerptMaxLen)
    ELSE NoImageMessage

PayloadError(parts) ==
    [kind |-> "throw", name |-> "no image payload", apiStatus |-> {},
     status |-> {}, headers |-> {}, responseText |-> {}, text |-> {},
     json |-> {}, message |-> NoImageReason(FirstPartText(parts))]

\* console.error("Gemini image response has no inline image payload", ...)
PayloadLog(parts) ==
    [kind |-> "payload", label |-> "image", status |-> {}, retryAfter |-> "",
     headers |-> <<>>, body |-> [from |-> "parts", value |-> {parts}]]

Base64Chars ==
    {UpperCase[i] : i \in 1..26} \cup AlphaNum \cup {"+", "/"}

RECURSIVE DropPadding(_, _)
DropPadding(s, n) ==
    IF n > 0 /\ s # <<>> /\ s[Len(s)] = "=" THEN DropPadding(SubSeq(s, 1, Len(s) - 1), n - 1)
    ELSE s

\* Whether atob(base64) throws (InvalidCharacterError): after dropping up to
\* two "=" of a text whose length is a multiple of 4, a character outside the
\* alphabet or a length of 1 modulo 4.
AtobThrows(base64) ==
    LET s == SelectSeq(base64, LAMBDA c : c \notin WhiteSpace)
        t == IF Len(s) % 4 = 0 THEN DropPadding(s, 2) ELSE s
    IN  \/ Len(t) % 4 = 1
        \/ \E i \in 1..Len(t) : t[i] \notin Base64Chars

DecodeError ==
    [kind |-> "throw", name |-> "InvalidCharacterError", apiStatus |-> {},
     status |-> {}, headers |-> {}, responseText |-> {}, text |-> {},
     json |-> {}, message |-> <<>>]

RECURSIVE ToDigits(_)
\* `${n}` for a number n >= 0
ToDigits(n) ==
    IF n < 10 THEN <<Digits[n + 1]>> ELSE ToDigits(n \div 10) \o <<Digits[(n % 10) + 1]>>

ImagesFolder == <<"i", "m", "a", "g", "e", "s">>

\* The path saveGeneratedImageToVault writes: `images/${slug}-${Date.now()}.${ext}`
ImageFilePath(query, mimeType, time) ==
    ImagesFolder \o <<"/">> \o SlugOrPlaceholder(query) \o <<"-">> \o ToDigits(time)
        \o <<".">> \o mimeTypeToExt(mimeType)

\* Whether callGeminiImageSearch reaches saveGeneratedImageToVault.
HasPayload(parts) == Base64Of(FindInline(parts)) # <<>>

\* callGeminiImageSearch after a successful response, at clock value time:
\* the error thrown or the path returned, the log entries written, whether
\* the folder exists afterwards and the files created.
callGeminiImageSearch(resp, query, time, folderExists) ==
    LET parts == IF PartsOf(resp) = {} THEN <<>> ELSE The(PartsOf(resp))
        inline == FindInline(parts)
        base64 == Base64Of(inline)
        path == ImageFilePath(query, MimeTypeOf(inline), time)
    IN  IF ~HasPayload(parts)
        THEN [error |-> {PayloadError(parts)}, logs |-> <<PayloadLog(parts)>>,
              folder |-> folderExists, files |-> {}, imageUrl |-> <<>>]
        ELSE IF AtobThrows(base64)
        THEN [error |-> {DecodeError}, logs |-> <<>>,
              folder |-> TRUE, files |-> {}, imageUrl |-> <<>>]
        ELSE [error |-> {}, logs |-> <<>>,
              folder |-> TRUE, files |-> {path}, imageUrl |-> path]

\* `![${action.instruction}](${imageUrl})`
ImageMarkdown(instruction, imageUrl) ==
    <<"!", "[">> \o instruction \o <<"]", "(">> \o imageUrl \o <<")">>

-----------------------------------------------------------------------------
(* The inputs of a run                                                      *)

\* Bounds of the model.
MaxPieces == 2
MaxTick == 1

\* "이미지 생성", the action type of the image path
ImageActionType == <<"<i>", "<mi>", "<ji>", " ", "<saeng>", "<seong>">>

MarkerA == <<"@", "(", "a", ")", "[", "b", "]">>
MarkerC == <<"@", "(", "c", ")", "[", "d", "]">>
MarkerImage == <<"@", "(">> \o ImageActionType \o <<")", "[", "E", " ", "f", "]">>

\* The pieces notes are made of: two text markers, an image marker, plain text.
DocPieces == {MarkerA, MarkerC, MarkerImage, <<"x">>}

RECURSIVE ConcatsOf(_, _)
\* The concatenations of at most n elements of pieces.
ConcatsOf(pieces, n) ==
    IF n = 0 THEN {<<>>}
    ELSE LET shorter == ConcatsOf(pieces, n - 1)
         IN  shorter \cup {d \o q : d \in shorter, q \in pieces}

Docs == ConcatsOf(DocPieces, MaxPieces)

\* The values of settings.apiKey: none, blank, a key with blanks around it.
ApiKeys == {<<>>, <<" ">>, <<" ", "k", "\n">>}

TextPart(t) == [text |-> {t}, inlineData |-> {}, inline_data |-> {}]
CamelPart(data, mime) ==
    [text |-> {}, inlineData |-> {[data |-> data, mimeType |-> mime]}, inline_data |-> {}]
SnakePart(data, mime) ==
    [text |-> {}, inlineData |-> {}, inline_data |-> {[data |-> data, mime_type |-> mime]}]

\* requestUrl resolving with a response
Response(status, headers, text, json) ==
    [kind |-> "response", name |-> "response", apiStatus |-> {}, status |-> {status},
     headers |-> headers, responseText |-> {}, text |-> text, json |-> json,
     message |-> <<>>]

\* requestUrl rejecting with an error
Thrown(status, headers, responseText, text, json) ==
    [kind |-> "throw", name |-> "requestUrl", apiStatus |-> {}, status |-> status,
     headers |-> headers, responseText |-> responseText, text |-> text, json |-> json,
     message |-> <<>>]

Envelope(parts) == {[parts |-> parts, error |-> {}]}

\* The failures of a request: a non-success status returned, an error that
\* carries a status, a network fault without one.
FailureReplies ==
    {Response(300, {[h \in {"retry-after"} |-> "5"]}, {"busy"}, {}),
     Thrown({429}, {[h \in {"Retry-After"} |-> "7"]}, {}, {""},
            {[parts |-> {}, error |-> {"quota"}]}),
     Thrown({}, {}, {}, {}, {})}

\* A text of three sentence-like chunks: "p. q!\nr"
Sentences == <<"p", ".", " ", "q", "!", "\n", "r">>

\* The successful responses of the text endpoint: no candidates, a blank
\* text, a text with blanks around it, a text holding "$&", a text that is
\* itself the source of a marker, a text of three sentences, a first part
\* without text.
TextReplies ==
    {Response(200, {}, {}, Envelope({})),
     Response(200, {}, {}, Envelope({<<TextPart(<<" ">>)>>})),
     Response(299, {}, {}, Envelope({<<TextPart(<<" ", "R", "\n">>)>>})),
     Response(200, {}, {}, Envelope({<<TextPart(<<"$", "&">>)>>})),
     Response(200, {}, {}, Envelope({<<TextPart(MarkerC)>>})),
     Response(200, {}, {}, Envelope({<<TextPart(Sentences)>>})),
     Response(200, {}, {}, Envelope({<<CamelPart({<<"Q">>}, {})>>}))}

Jpeg == ImagePrefix \o <<"J", "P", "E", "G">>

\* The successful responses of the image endpoint: no parts, a blank text, a
\* short text, a text longer than the excerpt, a payload under either naming,
\* a blank payload, a payload atob rejects.
ImageReplies ==
    {Response(200, {}, {}, Envelope({<<>>})),
     Response(200, {}, {}, Envelope({<<TextPart(<<" ">>)>>})),
     Response(200, {}, {}, Envelope({<<TextPart(<<" ", "n", "o">>)>>})),
     Response(200, {}, {}, Envelope({<<TextPart(Rep("t", ExcerptMaxLen) \o <<"u">>)>>})),
     Response(200, {}, {},
         Envelope({<<TextPart(<<"o", "k">>), CamelPart({<<"Q", "Q", "=", "=">>}, {Jpeg})>>})),
     Response(200, {}, {}, Envelope({<<SnakePart({<<" ", "Q", "Q">>}, {})>>})),
     Response(200, {}, {}, Envelope({<<CamelPart({<<" ">>}, {})>>})),
     Response(200, {}, {}, Envelope({<<CamelPart({<<"Q">>}, {})>>}))}

Replies(label) ==
    FailureReplies \cup (IF label = "image" THEN ImageReplies ELSE TextReplies)

-----------------------------------------------------------------------------
(* processMetaActionsInNote                                                  *)

\* The request the loop issues for the marker i of acts when the note read is
\* orig and the working text upd: the image request, or the text request with
\* the tone context taken from the text before the marker.
RequestFor(acts, orig, upd, i) ==
    IF acts[i].actionType = ImageActionType
    THEN [label |-> "image", marker |-> i, toneContext |-> {}]
    ELSE [label |-> "action", marker |-> i,
          toneContext |->
              {extractToneContext(BeforeMarker(ToneSource(orig, upd), acts[i].raw))}]

\* The loop after the marker i (0: on entry): the request of the next marker
\* is issued, or the loop is left and the note is written if it changed.
Proceed(acts, orig, upd, i) ==
    IF i < Len(acts)
    THEN /\ pc' = "await"
         /\ idx' = i + 1
         /\ request' = {RequestFor(acts, orig, upd, i + 1)}
         /\ requests' = requests + 1
    ELSE /\ pc' = IF upd # orig THEN "modify" ELSE "done"
         /\ idx' = i
         /\ request' = {}
         /\ UNCHANGED requests

\* Trigger with the key tested without trim(): a blank key starts the run.
Trigger_NoTrim ==
    /\ pc = "idle"
    /\ IF apiKey = <<>>
       THEN /\ modal' = modal + 1
            /\ pc' = "needkey"
       ELSE /\ pc' = "read"
            /\ UNCHANGED modal
    /\ UNCHANGED <<apiKey, fileContent, original, actions, idx, updated, request,
                   requests, logs, folder, images, created, now, reads,
                   modifies, error, resolved, reply, second, fpc, arg, ret>>

\* The command's callback: the run starts; without a key it opens the modal
\* and returns.
Trigger ==
    /\ pc = "idle"
    /\ IF Trim(apiKey) = <<>>
       THEN /\ modal' = modal + 1
            /\ pc' = "needkey"
       ELSE /\ pc' = "read"
            /\ UNCHANGED modal
    /\ UNCHANGED <<apiKey, fileContent, original, actions, idx, updated, request,
                   requests, logs, folder, images, created, now, reads,
                   modifies, error, resolved, reply, second, fpc, arg, ret>>

\* ReadDone without the early return and with the note saved whether or not
\* it changed.
ReadDone_AlwaysSaves ==
    /\ pc = "read"
    /\ reads' = reads + 1
    /\ original' = fileContent
    /\ actions' = parseMetaActions(fileContent)
    /\ updated' = fileContent
    /\ IF Len(actions') = 0
       THEN /\ pc' = "modify"
            /\ UNCHANGED <<idx, request, requests>>
       ELSE Proceed(actions', fileContent, fileContent, 0)
    /\ UNCHANGED <<apiKey, fileContent, logs, folder, images, created, now,
                   modal, modifies, error, resolved, reply, second, fpc, arg, ret>>

\* vault.read resolves: the note is parsed and the loop entered.
ReadDone ==
    /\ pc = "read"
    /\ reads' = reads + 1
    /\ original' = fileContent
    /\ actions' = parseMetaActions(fileContent)
    /\ updated' = fileContent
    /\ IF Len(actions') = 0
       THEN /\ pc' = "done"
            /\ UNCHANGED <<idx, request, requests>>
       ELSE Proceed(actions', fileContent, fileContent, 0)
    /\ UNCHANGED <<apiKey, fileContent, logs, folder, images, created, now,
                   modal, modifies, error, resolved, reply, second, fpc, arg, ret>>

\* Reject with the error caught inside the loop: the marker is left as it
\* is and the loop goes on.
Reject_SwallowsError(lg, err) ==
    /\ error' = err
    /\ logs' = logs \o lg
    /\ UNCHANGED <<updated, resolved, fileContent, modifies>>
    /\ Proceed(actions, original, updated, idx)

\* The run rejects with err after writing the entries lg.
Reject(lg, err) ==
    /\ pc' = "failed"
    /\ error' = err
    /\ logs' = logs \o lg
    /\ request' = {}
    /\ UNCHANGED <<idx, updated, requests, resolved, fileContent, modifies>>

\* updated = updated.replace(action.raw, repl), then the loop goes on.
Substitute(repl) ==
    /\ updated' = ReplaceFirst(updated, actions[idx].raw, repl)
    /\ resolved' = Append(resolved, repl)
    /\ UNCHANGED <<error, fileContent, modifies>>
    /\ Proceed(actions, original, updated', idx)

\* The request in flight settles with resp.
Respond ==
    /\ pc = "await"
    /\ \E resp \in Replies(The(request).label) :
          LET label == The(request).label
              r == requestUrlWithLogging(label, resp)
          IN  /\ reply' = {resp}
              /\ IF ~r.ok
                 THEN /\ Reject(r.logs, r.error)
                      /\ UNCHANGED <<folder, images, created, now>>
                 ELSE IF label = "image"
                 THEN IF ~HasPayload(IF PartsOf(resp) = {} THEN <<>> ELSE The(PartsOf(resp)))
                      THEN LET g == callGeminiImageSearch(resp, actions[idx].instruction,
                                                          now, folder)
                           IN  /\ Reject(g.logs, g.error)
                               /\ folder' = g.folder
                               /\ images' = images \cup g.files
                               /\ created' = created \cup g.files
                               /\ UNCHANGED now
                      ELSE \E dt \in 1..MaxTick :
                           LET g == callGeminiImageSearch(resp, actions[idx].instruction,
                                                          now + dt, folder)
                           IN  /\ now' = now + dt
                               /\ folder' = g.folder
                               /\ images' = images \cup g.files
                               /\ created' = created \cup g.files
                               /\ IF g.error # {}
                                  THEN Reject(g.logs, g.error)
                                  ELSE /\ logs' = logs \o g.logs
                                       /\ Substitute(ImageMarkdown(actions[idx].instruction,
                                                                   g.imageUrl))
                 ELSE /\ Substitute(callGeminiForAction(resp))
                      /\ UNCHANGED <<logs, folder, images, created, now>>
    /\ UNCHANGED <<apiKey, original, actions, modal, reads, second, fpc, arg, ret>>

\* vault.modify resolves: the working text is stored.
ModifyDone ==
    /\ pc = "modify"
    /\ fileContent' = updated
    /\ modifies' = modifies + 1
    /\ pc' = "done"
    /\ UNCHANGED <<apiKey, original, actions, idx, updated, request, requests,
                   logs, folder, images, created, now, modal, reads, error,
                   resolved, reply, second, fpc, arg, ret>>

\* The locals of a run that was not started.
NoRun == [pc |-> "idle", original |-> <<>>, actions |-> <<>>, idx |-> 0,
          updated |-> <<>>]

NoCall == fpc = "none" /\ arg = <<>> /\ ret = <<>>

Init ==
    /\ apiKey \in ApiKeys
    /\ fileContent \in Docs
    /\ folder \in BOOLEAN
    /\ pc = "idle"
    /\ original = <<>>
    /\ actions = <<>>
    /\ idx = 0
    /\ updated = <<>>
    /\ request = {}
    /\ requests = 0
    /\ logs = <<>>
    /\ images = {}
    /\ created = {}
    /\ now = 0
    /\ modal = 0
    /\ reads = 0
    /\ modifies = 0
    /\ error = {}
    /\ resolved = <<>>
    /\ reply = {}
    /\ second = NoRun
    /\ NoCall

Next == Trigger \/ ReadDone \/ Respond \/ ModifyDone

Spec == Init /\ [][Next]_vars

-----------------------------------------------------------------------------
(* A second run of the command on the same note while the first one awaits   *)

\* The state that belongs to the first run alone.
firstVars == <<pc, original, actions, idx, updated, request, requests, created,
               reads, modifies, error, resolved, reply>>

\* The command's callback once more: checkCallback starts
\* processMetaActionsInNote without looking for a run in progress.
SecondTrigger ==
    /\ pc = "await"
    /\ second.pc = "idle"
    /\ IF Trim(apiKey) = <<>>
       THEN /\ modal' = modal + 1
            /\ second' = [second EXCEPT !.pc = "needkey"]
       ELSE /\ second' = [second EXCEPT !.pc = "read"]
            /\ UNCHANGED modal
    /\ UNCHANGED <<firstVars, apiKey, fileContent, logs, folder, images, now,
                   fpc, arg, ret>>

\* vault.read resolves for the second run.
SecondReadDone ==
    /\ second.pc = "read"
    /\ LET acts == parseMetaActions(fileContent)
       IN  second' = [pc |-> IF Len(acts) = 0 THEN "done" ELSE "await",
                      original |-> fileContent,
                      actions |-> acts,
                      idx |-> IF Len(acts) = 0 THEN 0 ELSE 1,
                      updated |-> fileContent]
    /\ UNCHANGED <<firstVars, apiKey, fileContent, logs, folder, images, now,
                   modal, fpc, arg, ret>>

\* The second run after updated = updated.replace(action.raw, repl): the next
\* marker, or the end of the loop.
SecondAfter(repl) ==
    LET upd == ReplaceFirst(second.updated, second.actions[second.idx].raw, repl)
    IN  IF second.idx < Len(second.actions)
        THEN [second EXCEPT !.updated = upd, !.idx = second.idx + 1]
        ELSE [second EXCEPT !.updated = upd,
                            !.pc = IF upd # second.original THEN "modify" ELSE "done"]

\* The request of the second run settles with resp.
SecondRespond ==
    /\ second.pc = "await"
    /\ LET act == second.actions[second.idx]
           label == IF act.actionType = ImageActionType THEN "image" ELSE "action"
       IN  \E resp \in Replies(label) :
             LET r == requestUrlWithLogging(label, resp)
             IN  IF ~r.ok
                 THEN /\ second' = [second EXCEPT !.pc = "failed"]
                      /\ logs' = logs \o r.logs
                      /\ UNCHANGED <<folder, images, now>>
                 ELSE IF label = "image"
                 THEN \E dt \in 1..MaxTick :
                        LET paid == HasPayload(IF PartsOf(resp) = {} THEN <<>>
                                               ELSE The(PartsOf(resp)))
                            time == IF paid THEN now + dt ELSE now
                            g == callGeminiImageSearch(resp, act.instruction, time, folder)
                        IN  /\ now' = time
                            /\ folder' = g.folder
                            /\ images' = images \cup g.files
                            /\ logs' = logs \o g.logs
                            /\ second' = IF g.error # {}
                                         THEN [second EXCEPT !.pc = "failed"]
                                         ELSE SecondAfter(ImageMarkdown(act.instruction,
                                                                        g.imageUrl))
                 ELSE /\ second' = SecondAfter(callGeminiForAction(resp))
                      /\ UNCHANGED <<logs, folder, images, now>>
    /\ UNCHANGED <<firstVars, apiKey, fileContent, modal, fpc, arg, ret>>

\* vault.modify resolves for the second run.
SecondModifyDone ==
    /\ second.pc = "modify"
    /\ fileContent' = second.updated
    /\ second' = [second EXCEPT !.pc = "done"]
    /\ UNCHANGED <<firstVars, apiKey, logs, folder, images, now, modal,
                   fpc, arg, ret>>

NextOverlap ==
    \/ Trigger \/ ReadDone \/ Respond \/ ModifyDone
    \/ SecondTrigger \/ SecondReadDone \/ SecondRespond \/ SecondModifyDone

SpecOverlap == Init /\ [][NextOverlap]_vars

-----------------------------------------------------------------------------
(* Statements about a run                                                   *)

\* C1: when parseMetaActions finds no marker in the note, a run with a key
\* configured ends after the read with no request issued, no image file
\* created and no vault.modify call: the stored note is what was read.
C1_NoMarkerNoEffect ==
    (reads = 1 /\ parseMetaActions(original) = <<>>) =>
        /\ pc = "done"
        /\ requests = 0
        /\ request = {}
        /\ created = {}
        /\ images = {}
        /\ modifies = 0
        /\ fileContent = original

\* A run over a non-empty note without markers has ended.
C1_Witness ==
    /\ reads = 1
    /\ pc = "done"
    /\ original = <<"x", "x">>
    /\ actions = <<>>

\* C2: with no key configured (empty, or blank once trimmed) the run opens
\* the API-key modal once and returns: no request, no read, no write and no
\* file, whatever the note holds.
C2_MissingSecret ==
    (Trim(apiKey) = <<>> /\ pc # "idle") =>
        /\ pc = "needkey"
        /\ modal = 1
        /\ requests = 0
        /\ request = {}
        /\ reads = 0
        /\ modifies = 0
        /\ created = {}
        /\ images = {}
        /\ logs = <<>>

\* The run was started with a blank key on a note that holds markers.
C2_Witness ==
    /\ pc = "needkey"
    /\ apiKey = <<" ">>
    /\ Len(parseMetaActions(fileContent)) = 2

\* C3: once the resolution of a marker has failed the run has stopped at that
\* marker: no request is in flight, the requests issued are those of the
\* markers up to the failed one, nothing more can happen, and the note was
\* never written, so its stored content is the content read.
C3_FailureStopsWithoutWrite ==
    error # {} =>
        /\ pc = "failed"
        /\ request = {}
        /\ requests = idx
        /\ idx <= Len(actions)
        /\ Len(resolved) = idx - 1
        /\ modifies = 0
        /\ fileContent = original
        /\ ~ENABLED Next

\* The second marker failed after the first was substituted in the working
\* text.
C3_Witness ==
    /\ pc = "failed"
    /\ idx = 2
    /\ updated # original
    /\ fileContent = original

\* No two markers have the same source span.
DistinctSpans(acts) ==
    \A i, j \in 1..Len(acts) : i # j => acts[i].raw # acts[j].raw

RECURSIVE SpliceFrom(_, _, _, _, _)
\* orig from the position pos on, with the parsed occurrence of each marker
\* from the k-th on replaced by its replacement.
SpliceFrom(orig, acts, repls, k, pos) ==
    IF k > Len(acts) THEN SubSeq(orig, pos, Len(orig))
    ELSE SubSeq(orig, pos, acts[k].index) \o repls[k]
             \o SpliceFrom(orig, acts, repls, k + 1,
                           acts[k].index + Len(acts[k].raw) + 1)

\* C4: when the markers have pairwise-distinct source spans, the working text
\* after the loop is the note read with the parsed occurrence of each marker
\* replaced by its resolved content and everything else unchanged.
C4_RoundTrip ==
    (/\ pc \in {"modify", "done"}
     /\ Len(actions) > 0
     /\ Len(resolved) = Len(actions)
     /\ DistinctSpans(actions)) =>
        updated = SpliceFrom(original, actions, resolved, 1, 1)

\* Whether no part carries inline data under either field naming.
NoInlinePayload(parts) ==
    \A i \in 1..Len(parts) :
        /\ parts[i].inlineData = {} \/ The(parts[i].inlineData).data \in {{}, {<<>>}}
        /\ parts[i].inline_data = {} \/ The(parts[i].inline_data).data \in {{}, {<<>>}}

\* A response with a success status whose parts carry no inline data.
SuccessWithoutPayload(r) ==
    /\ r.kind = "response"
    /\ The(r.status) \in 200..299
    /\ NoInlinePayload(IF PartsOf(r) = {} THEN <<>> ELSE The(PartsOf(r)))

\* The message names the first part's text: nothing when the trimmed text is
\* empty, else " text=" and its first 180 characters at most.
CarriesExcerpt(message, r) ==
    LET parts == IF PartsOf(r) = {} THEN <<>> ELSE The(PartsOf(r))
        t == IF parts = <<>> \/ parts[1].text = {} THEN <<>> ELSE Trim(The(parts[1].text))
        head == NoImageMessage \o NoImageTextLabel
        n == Len(message) - Len(head)
    IN  IF t = <<>> THEN message = NoImageMessage
        ELSE /\ n >= 1
             /\ n <= 180
             /\ n = Len(t) \/ n = 180
             /\ message = head \o SubSeq(t, 1, n)

\* C6: when the request of an image marker settles with a successful response
\* that carries no inline data under either naming, the run rejects with the
\* no-image error, whose message carries an excerpt of at most 180 characters
\* of the first part's (trimmed) text when there is one, and neither the
\* images folder nor any file is created in that step.
C6_NoPayloadRaises ==
    [][(/\ pc = "await"
        /\ The(request).label = "image"
        /\ reply' # {}
        /\ SuccessWithoutPayload(The(reply'))) =>
           (/\ pc' = "failed"
            /\ error' # {}
            /\ The(error').name = "no image payload"
            /\ CarriesExcerpt(The(error').message, The(reply'))
            /\ UNCHANGED <<folder, images, created, fileContent, updated>>)]_vars

\* An image marker failed for want of a payload with a text longer than the
\* excerpt: the message ends after 180 characters of it, and no folder.
C6_Witness ==
    /\ pc = "failed"
    /\ error # {}
    /\ The(error).name = "no image payload"
    /\ Len(The(error).message) = Len(NoImageMessage \o NoImageTextLabel) + 180
    /\ ~folder
    /\ images = {}

\* The entries of the log that logGeminiError wrote.
StructuredEntries == {i \in 1..Len(logs) : logs[i].kind = "structured"}

\* The run failed in requestUrlWithLogging.
TransportFailed ==
    /\ error # {}
    /\ The(error).name \in {"requestUrl", "Gemini API error"}

\* C7 as stated: every failed request (a non-success status, an error that
\* carries a status, a network fault without one) leaves exactly one entry of
\* logGeminiError in the log.
C7_AlwaysOneStructuredEntry ==
    TransportFailed => Cardinality(StructuredEntries) = 1

\* C7, amended: every failed request is logged before its error propagates;
\* logGeminiError writes exactly one entry, with the status of the failure,
\* when the failure carries a status (a non-success response, which the catch
\* block then logs again as a plain error, or a thrown error with a status),
\* and none for a fault without a status, which is logged as a plain error
\* only.
C7_StatusFailuresStructured ==
    TransportFailed =>
        LET r == The(reply)
            n == Len(logs)
        IN  /\ n >= 1
            /\ \A i \in 1..n : logs[i].label = (IF actions[idx].actionType = ImageActionType
                                                THEN "image" ELSE "action")
            /\ IF r.kind = "response"
               THEN /\ n = 2
                    /\ logs[1].kind = "structured"
                    /\ logs[1].status = r.status
                    /\ logs[2].kind = "raw"
               ELSE IF r.status # {}
               THEN /\ n = 1
                    /\ logs[1].kind = "structured"
                    /\ logs[1].status = r.status
               ELSE /\ n = 1
                    /\ logs[1].kind = "raw"

\* A request failed with a network fault that carries no status: one plain
\* entry, none of logGeminiError.
C7_Witness ==
    /\ TransportFailed
    /\ The(reply).kind = "throw"
    /\ The(reply).status = {}
    /\ StructuredEntries = {}
    /\ Len(logs) = 1

RECURSIVE Substituted(_, _, _, _)
\* The note orig after the replacements of the markers 1..k were substituted
\* one after the other.
Substituted(orig, acts, repls, k) ==
    IF k = 0 THEN orig
    ELSE ReplaceFirst(Substituted(orig, acts, repls, k - 1), acts[k].raw, repls[k])

\* The part of text that precedes the first occurrence of raw (all of text
\* when raw does not occur).
PrefixBeforeFirst(text, raw) ==
    LET starts == {n \in 1..Len(text) : OccursAt(text, raw, n)}
    IN  IF starts = {} THEN text
        ELSE SubSeq(text, 1, (CHOOSE n \in starts : \A m \in starts : n <= m) - 1)

\* C11: at most one request is outstanding, and only while the run awaits;
\* the request outstanding is that of the marker idx, the idx-th request
\* issued, and the responses of the markers 1..idx-1 have all arrived and
\* been substituted, in parse order, into the working text; the tone context
\* sent for a text marker is extracted from that working text, and only from
\* the part before the first occurrence of the marker's source in it.
C11_OneRequestInParseOrder ==
    /\ Cardinality(request) <= 1
    /\ request # {} => pc = "await"
    /\ pc = "await" =>
          /\ request # {}
          /\ The(request).marker = idx
          /\ requests = idx
          /\ Len(resolved) = idx - 1
          /\ updated = Substituted(original, actions, resolved, idx - 1)
          /\ The(request).label = "action" =>
                The(request).toneContext =
                    {extractToneContext(PrefixBeforeFirst(updated, actions[idx].raw))}
          /\ The(request).label = "image" =>
                actions[idx].actionType = ImageActionType

\* The request of the second marker is outstanding and its tone context is
\* made of the last two sentences of the first marker's replacement, which
\* the note as read does not hold.
C11_Witness ==
    /\ pc = "await"
    /\ idx = 2
    /\ resolved = <<Sentences>>
    /\ The(request).label = "action"
    /\ The(request).toneContext = {<<"q", "!", " ", "r">>}
    /\ original = MarkerA \o MarkerC


\* A response with a success status whose first part holds no usable text:
\* no parts, no first part, a first part without text or with a blank one.
SuccessWithoutText(r) ==
    /\ r.kind = "response"
    /\ The(r.status) \in 200..299
    /\ LET parts == IF PartsOf(r) = {} THEN <<>> ELSE The(PartsOf(r))
       IN  \/ parts = <<>>
           \/ parts[1].text = {}
           \/ \A i \in 1..Len(The(parts[1].text)) : The(parts[1].text)[i] \in WhiteSpace

\* C12: when the request of a text marker settles with a successful response
\* without usable text, the run does not fail and logs nothing: the marker's
\* replacement is the empty string, the first occurrence of its source is cut
\* out of the working text, and the run goes on with the request of the next
\* marker or, after the last marker, with the write of the working text when
\* it differs from the note read; the text written becomes the stored note.
C12_EmptyTextDeletesMarker ==
    [][/\ (/\ pc = "await"
           /\ The(request).label = "action"
           /\ reply' # {}
           /\ SuccessWithoutText(The(reply'))) =>
              (/\ error' = {}
               /\ logs' = logs
               /\ resolved' = Append(resolved, <<>>)
               /\ LET before == PrefixBeforeFirst(updated, actions[idx].raw)
                      rest == SubSeq(updated, Len(before) + Len(actions[idx].raw) + 1,
                                     Len(updated))
                  IN  updated' = before \o rest
               /\ Len(updated') = Len(updated) - Len(actions[idx].raw)
               /\ IF idx < Len(actions)
                  THEN /\ pc' = "await"
                       /\ The(request').marker = idx + 1
                  ELSE /\ request' = {}
                       /\ pc' = IF updated' # original THEN "modify" ELSE "done")
       /\ pc = "modify" =>
              (/\ pc' = "done"
               /\ fileContent' = updated
               /\ fileContent' # original
               /\ modifies' = 1)]_vars

\* A run over a note of one text marker between two characters ended after a
\* response without text: the stored note is the two characters.
C12_Witness ==
    /\ pc = "done"
    /\ original = <<"x">> \o MarkerA
    /\ resolved = <<<<>>>>
    /\ reply # {}
    /\ SuccessWithoutText(The(reply))
    /\ fileContent = <<"x">>
    /\ modifies = 1

\* C13: every substitution step is literal: the working text after the step
\* is the text before the first occurrence of the marker's source, then the
\* replacement string as it is (the text returned, or the markdown image),
\* then the text after that occurrence, whatever "$" sequences the
\* replacement holds.
C13_LiteralSubstitution ==
    [][(pc = "await" /\ Len(resolved') = Len(resolved) + 1) =>
          LET raw == actions[idx].raw
              r == resolved'[Len(resolved')]
              before == PrefixBeforeFirst(updated, raw)
              rest == SubSeq(updated, Len(before) + Len(raw) + 1, Len(updated))
          IN  updated' = before \o r \o rest]_vars

\* C15: when a run has ended, every image file it created is referenced by
\* the stored note; a run that ended in failure has left no file behind.
C15_NoOrphanImages ==
    /\ pc = "done" => \A f \in created : IndexOf(fileContent, f) >= 0
    /\ pc = "failed" => created = {}

\* C14: no update to the note is lost when runs overlap: when the final
\* vault.modify of a run stores its working text, the stored note is still
\* the content that run read, so the write replaces nothing that was written
\* after the read.
C14_NoLostUpdate ==
    [][/\ (pc = "modify" /\ pc' = "done") => fileContent = original
       /\ (second.pc = "modify" /\ second'.pc = "done") =>
              fileContent = second.original]_vars

-----------------------------------------------------------------------------
(* Single calls of the pure functions                                       *)

\* Bounds of the inputs.
MaxParsePieces == 5
MaxSlugPieces == 2
MaxTonePieces == 4
MaxEnvLines == 3

\* No run: the state of the plugin after onload.
RunIdle ==
    /\ apiKey = <<>>
    /\ fileContent = <<>>
    /\ folder = FALSE
    /\ pc = "idle"
    /\ original = <<>>
    /\ actions = <<>>
    /\ idx = 0
    /\ updated = <<>>
    /\ request = {}
    /\ requests = 0
    /\ logs = <<>>
    /\ images = {}
    /\ created = {}
    /\ now = 0
    /\ modal = 0
    /\ reads = 0
    /\ modifies = 0
    /\ error = {}
    /\ resolved = <<>>
    /\ reply = {}
    /\ second = NoRun

\* The texts parseMetaActions is called on: a whole marker and the fragments
\* of markers, in any order.
ParsePieces ==
    {MarkerA, <<"@", "(">>, <<")", "[">>, <<"]">>, <<"a">>, <<" ">>, <<")">>}

ParseInit ==
    /\ RunIdle
    /\ fpc = "call"
    /\ arg \in ConcatsOf(ParsePieces, MaxParsePieces)
    /\ ret = <<>>

ParseCall ==
    /\ fpc = "call"
    /\ ret' = parseMetaActions(arg)
    /\ fpc' = "ret"
    /\ UNCHANGED <<runVars, arg>>

SpecParse == ParseInit /\ [][ParseCall]_vars

\* The instructions sanitizeFileName is called on: a run of "a" whose length
\* is around the slice bound, between two short texts.
SlugPieces == {<<"B">>, <<"9">>, <<"-">>, <<"!">>, <<" ">>, <<"<yo>">>}

SlugRuns == {0, 1, SlugMaxLen - 2, SlugMaxLen - 1, SlugMaxLen}

SlugInit ==
    /\ RunIdle
    /\ fpc = "call"
    /\ \E h \in ConcatsOf(SlugPieces, MaxSlugPieces), n \in SlugRuns,
          t \in ConcatsOf(SlugPieces, MaxSlugPieces) :
            arg = h \o Rep("a", n) \o t
    /\ ret = [slug |-> <<>>, name |-> <<>>]

SlugCall ==
    /\ fpc = "call"
    /\ ret' = [slug |-> sanitizeFileName(arg), name |-> SlugOrPlaceholder(arg)]
    /\ fpc' = "ret"
    /\ UNCHANGED <<runVars, arg>>

SpecSlug == SlugInit /\ [][SlugCall]_vars

\* The tone contexts inferToneProfile is called on.
TonePieces ==
    {<<"<yo>">>, <<"<da>">>, <<"<ni>">>, <<"<seup>">>, <<".">>, <<"a">>, <<" ">>}

ToneInit ==
    /\ RunIdle
    /\ fpc = "call"
    /\ arg \in ConcatsOf(TonePieces, MaxTonePieces)
    /\ ret = ""

ToneCall ==
    /\ fpc = "call"
    /\ ret' = inferToneProfile(arg)
    /\ fpc' = "ret"
    /\ UNCHANGED <<runVars, arg>>

SpecTone == ToneInit /\ [][ToneCall]_vars

\* The lines of the .env files: a blank line, another key, the key with an
\* empty value, with a value, with blanks around it.
EnvLines ==
    {<<>>,
     <<"x", "=", "1">>,
     GEMINI_API_KEY_ENV \o <<"=">>,
     GEMINI_API_KEY_ENV \o <<"=", "o">>,
     <<" ">> \o GEMINI_API_KEY_ENV \o <<" ", "=", " ", "o">>}

RECURSIVE JoinLines(_)
\* The lines, each ended by "\n".
JoinLines(ls) ==
    IF ls = <<>> THEN <<>> ELSE Head(ls) \o <<"\n">> \o JoinLines(Tail(ls))

RECURSIVE LineLists(_)
\* The lists of at most n lines.
LineLists(n) ==
    IF n = 0 THEN {<<>>}
    ELSE LET shorter == LineLists(n - 1)
         IN  shorter \cup {Append(ls, l) : ls \in shorter, l \in EnvLines}

\* The .env texts: the lines joined, with or without the last "\n".
EnvTexts ==
    LET full == {JoinLines(ls) : ls \in LineLists(MaxEnvLines)}
    IN  full \cup {SubSeq(t, 1, Len(t) - 1) : t \in full \ {<<>>}}

EnvInit ==
    /\ RunIdle
    /\ fpc = "call"
    /\ \E current \in {{}} \cup {{t} : t \in EnvTexts},
          key \in {<<>>, <<"k", " ">>} :
            arg = [current |-> current, apiKey |-> key]
    /\ ret = <<>>

EnvCall ==
    /\ fpc = "call"
    /\ ret' = saveApiKeyToEnv(arg.current, arg.apiKey)
    /\ fpc' = "ret"
    /\ UNCHANGED <<runVars, arg>>

SpecEnv == EnvInit /\ [][EnvCall]_vars

-----------------------------------------------------------------------------
(* Statements about the pure functions                                      *)

\* Whether raw is @(g1)[g2] with g1 free of ")" and g2 free of "]", both
\* non-empty, and the two fields are the groups trimmed.
IsMarkerOf(raw, actionType, instruction) ==
    \E q \in 4..(Len(raw) - 3) :
        /\ raw[1] = "@"
        /\ raw[2] = "("
        /\ raw[q] = ")"
        /\ raw[q + 1] = "["
        /\ raw[Len(raw)] = "]"
        /\ \A i \in 3..(q - 1) : raw[i] # ")"
        /\ \A i \in (q + 2)..(Len(raw) - 1) : raw[i] # "]"
        /\ actionType = Trim(SubSeq(raw, 3, q - 1))
        /\ instruction = Trim(SubSeq(raw, q + 2, Len(raw) - 1))

\* C5: parseMetaActions returns the markers by strictly increasing start, no
\* two of them overlap, and each raw span is the substring of the input at
\* its start, of the form @(type)[instruction], with actionType and
\* instruction the two groups trimmed.
C5_ParseOrderedExact ==
    fpc = "ret" =>
        /\ \A i \in 1..Len(ret) :
              /\ ret[i].index >= 0
              /\ ret[i].index + Len(ret[i].raw) <= Len(arg)
              /\ SubSeq(arg, ret[i].index + 1, ret[i].index + Len(ret[i].raw)) = ret[i].raw
              /\ IsMarkerOf(ret[i].raw, ret[i].actionType, ret[i].instruction)
        /\ \A i \in 1..(Len(ret) - 1) :
              ret[i].index + Len(ret[i].raw) <= ret[i + 1].index

\* Two markers were returned, the first with a blank trimmed off its type
\* and a "@(" inside it.
C5_Witness ==
    /\ fpc = "ret"
    /\ Len(ret) = 2
    /\ ret[1].actionType = <<"@", "(", "a">>
    /\ Len(ret[1].raw) = 10

\* C8: the slug holds only lower-case letters, digits and single "-", does
\* not start or end with "-", is at most 50 characters long, and the file
\* name uses "image" when the slug is empty.
C8_SlugShape ==
    fpc = "ret" =>
        LET slug == ret.slug
        IN  /\ \A i \in 1..Len(slug) : slug[i] \in AlphaNum \cup {"-"}
            /\ \A i \in 1..(Len(slug) - 1) : ~(slug[i] = "-" /\ slug[i + 1] = "-")
            /\ slug # <<>> => slug[1] # "-" /\ slug[Len(slug)] # "-"
            /\ Len(slug) <= 50
            /\ ret.name = (IF slug = <<>> THEN <<"i", "m", "a", "g", "e">> ELSE slug)

\* The positions of the character c in s.
PositionsOf(s, c) == {i \in 1..Len(s) : s[i] = c}

\* 니다 occurs in s.
HasFormal(s) == \E i \in 1..(Len(s) - 1) : s[i] = "<ni>" /\ s[i + 1] = "<da>"

\* s ends in the character c, or in c and one punctuation mark.
EndsIn(s, c) ==
    \/ Len(s) >= 1 /\ s[Len(s)] = c
    \/ Len(s) >= 2 /\ s[Len(s)] \in SentencePunct /\ s[Len(s) - 1] = c

\* The characters that end a sentence of s: the one before each punctuation
\* mark and the last one.
Endings(s) ==
    {s[i] : i \in {i \in 1..Len(s) :
                      /\ s[i] \notin SentencePunct \cup WhiteSpace
                      /\ i = Len(s) \/ s[i + 1] \in SentencePunct}}

Descriptors == {ToneInsufficient, ToneCasualPolite, ToneFormal, TonePlain, ToneFallback}

\* C9 as stated: a descriptor is always returned; a context that ends in 요
\* and holds no 니다 is casual-polite; a context whose only endings are 다 is
\* plain; the empty context is insufficient.
C9_ClassifiesByEnding ==
    fpc = "ret" =>
        /\ ret \in Descriptors
        /\ (EndsIn(arg, "<yo>") /\ ~HasFormal(arg)) => ret = ToneCasualPolite
        /\ (Endings(arg) = {"<da>"} /\ ~HasFormal(arg)) => ret = TonePlain
        /\ arg = <<>> => ret = ToneInsufficient

\* C9, amended: a descriptor is always returned, decided by the numbers of 요
\* and 다 in the whole context: casual-polite exactly when 요 occurs more often
\* than 다; else formal when 니다 occurs; else plain when 다 occurs; else the
\* fallback; the empty context is insufficient.  So a context that ends in 요
\* and holds no 다 is casual-polite, and one that holds 다 but neither 요 nor
\* 니다 is plain.
C9_ClassifiesByCounts ==
    fpc = "ret" =>
        LET yo == Cardinality(PositionsOf(arg, "<yo>"))
            da == Cardinality(PositionsOf(arg, "<da>"))
        IN  /\ ret \in Descriptors
            /\ ret = ToneInsufficient <=> arg = <<>>
            /\ ret = ToneCasualPolite <=> yo > da
            /\ ret = ToneFormal <=> (yo <= da /\ HasFormal(arg))
            /\ ret = TonePlain <=> (yo <= da /\ ~HasFormal(arg) /\ da > 0)
            /\ (EndsIn(arg, "<yo>") /\ da = 0) => ret = ToneCasualPolite
            /\ (da > 0 /\ yo = 0 /\ ~HasFormal(arg)) => ret = TonePlain

\* A context that ends in 요 and holds no 니다, but as many 다 as 요: plain.
C9_Witness ==
    /\ fpc = "ret"
    /\ EndsIn(arg, "<yo>")
    /\ ~HasFormal(arg)
    /\ PositionsOf(arg, "<da>") # {}
    /\ ret = TonePlain

RECURSIVE SplitLines(_)
\* The lines of a text: the pieces between "\n", without the empty piece
\* after a final "\n".
SplitLines(t) ==
    IF t = <<>> THEN <<>>
    ELSE LET n == FindChar(t, "\n", 1)
         IN  IF n = 0 THEN <<t>>
             ELSE <<SubSeq(t, 1, n - 1)>> \o SplitLines(SubSeq(t, n + 1, Len(t)))

RECURSIVE SkipBlanks(_, _)
SkipBlanks(l, p) == IF p <= Len(l) /\ l[p] = " " THEN SkipBlanks(l, p + 1) ELSE p

\* Whether the line l sets the key: blanks, the key, blanks, "=".
IsKeyLine(l, key) ==
    LET a == SkipBlanks(l, 1)
        b == SkipBlanks(l, a + Len(key))
    IN  OccursAt(l, key, a) /\ b <= Len(l) /\ l[b] = "="

\* C10: writeEnvValue replaces the first line of the key, or appends a line
\* when there is none; every other line of the file, blank ones included,
\* is in the result, unchanged and in the same order.
C10_OtherLinesKept ==
    fpc = "ret" =>
        LET before == SplitLines(IF arg.current = {} THEN <<>> ELSE The(arg.current))
            after == SplitLines(ret)
            line == GEMINI_API_KEY_ENV \o <<"=">> \o Trim(arg.apiKey)
            ks == {i \in 1..Len(before) : IsKeyLine(before[i], GEMINI_API_KEY_ENV)}
        IN  IF ks = {} THEN after = Append(before, line)
            ELSE after = [before EXCEPT ![CHOOSE i \in ks : \A j \in ks : i <= j] = line]

====
